---- MODULE Spec2Model ----
(***************************************************************************)
(* cgen: an AST of owned nodes (include/cgen.hpp) and its one renderer,    *)
(* CodeGenVisitor.  The heap holds the node objects, roots are the         *)
(* std::unique_ptr handles the caller holds, and every operation of the    *)
(* header (builders, member operations, push, accept) is one action.       *)
(***************************************************************************)
EXTENDS Integers, Sequences, FiniteSets, TLC

VARIABLES heap, roots, ret, deletes, last, base

vars == <<heap, roots, ret, deletes, last, base>>

\* ------------------------------------------------------------------ bounds
\* Number of nodes a behaviour allocates on top of its initial trees.
MaxNew == 1
\* Longest pack handed to a variadic builder (decl_type, call).
MaxPack == 2
\* Stack frames a render has room for.
MaxStack == 3

\* An empty std::unique_ptr / a failed dynamic_cast.
Null == 0

Names == {"x"}
Sizes == {0, 10}
IntValues == {0, 12}
StringValues == {"hi"}
CharValues == {"c"}

\* ------------------------------------------------------------------ nodes
PrimitiveKinds ==
    {"i8", "i16", "i32", "i64", "u8", "u16", "u32", "u64", "f32", "f64"}

LiteralVariants == {"Literal<int>", "Literal<std::string>", "Literal<char>"}

\* The classes a caller default-constructs with std::make_unique<X>().
DefaultConstructible ==
    {"Program", "PointerOf", "ArrayOf", "Type", "Static", "DeclLocal", "Assign",
     "Block", "Function", "Return", "Field", "DeclType", "Deref", "GetRef",
     "Local", "Call"}

Variants == DefaultConstructible \cup {"Primitive"} \cup LiteralVariants

\* The object std::make_unique<X>() leaves: empty strings, empty vectors,
\* empty unique_ptr slots, size = 0.
DefaultNode(v) ==
    CASE v = "Program"   -> [variant |-> v, nodes |-> <<>>]
      [] v = "PointerOf" -> [variant |-> v, node |-> Null]
      [] v = "ArrayOf"   -> [variant |-> v, node |-> Null, size |-> 0]
      [] v = "Type"      -> [variant |-> v, name |-> ""]
      [] v = "Static"    -> [variant |-> v, node |-> Null]
      [] v = "DeclLocal" -> [variant |-> v, name |-> "", type |-> Null]
      [] v = "Assign"    -> [variant |-> v, lhs |-> Null, rhs |-> Null]
      [] v = "Block"     -> [variant |-> v, nodes |-> <<>>]
      [] v = "Function"  -> [variant |-> v, name |-> "", parameters |-> <<>>,
                             return_type |-> Null, body |-> Null]
      [] v = "Return"    -> [variant |-> v, node |-> Null]
      [] v = "Field"     -> [variant |-> v, type |-> Null, name |-> ""]
      [] v = "DeclType"  -> [variant |-> v, name |-> "", fields |-> <<>>]
      [] v = "Deref"     -> [variant |-> v, node |-> Null]
      [] v = "GetRef"    -> [variant |-> v, node |-> Null]
      [] v = "Local"     -> [variant |-> v, name |-> ""]
      [] v = "Call"      -> [variant |-> v, node |-> Null, nodes |-> <<>>]
      [] v = "Node"      -> [variant |-> v]

PrimitiveNode(k) == [variant |-> "Primitive", kind |-> k]

LiteralNode(T, value) == [variant |-> T, value |-> value]

\* The std::unique_ptr<Node> members of each class, in declaration order.
SlotsOf(v) ==
    CASE v \in {"PointerOf", "ArrayOf", "Static", "Return", "Deref", "GetRef"}
             -> <<"node">>
      [] v \in {"DeclLocal", "Field"} -> <<"type">>
      [] v = "Assign"   -> <<"lhs", "rhs">>
      [] v = "Function" -> <<"return_type", "body">>
      [] v = "Call"     -> <<"node">>
      [] OTHER          -> <<>>

\* The std::vector<std::unique_ptr<Node>> member of each class, if any.
VectorsOf(v) ==
    CASE v \in {"Program", "Block", "Call"} -> <<"nodes">>
      [] v = "Function" -> <<"parameters">>
      [] v = "DeclType" -> <<"fields">>
      [] OTHER          -> <<>>

HasName(v) == v \in {"Type", "DeclLocal", "Function", "Field", "DeclType", "Local"}

\* Class order of members matters for nothing but destruction; the owned
\* children of a node are its filled slots, then its vector elements.
RECURSIVE Flatten(_)
Flatten(ss) == IF ss = <<>> THEN <<>> ELSE Head(ss) \o Flatten(Tail(ss))

SlotValues(node) ==
    LET s == SlotsOf(node.variant) IN [i \in 1..Len(s) |-> node[s[i]]]

VectorValues(node) ==
    LET s == VectorsOf(node.variant) IN Flatten([i \in 1..Len(s) |-> node[s[i]]])

Children(node) ==
    SelectSeq(SlotValues(node), LAMBDA c : c # Null) \o VectorValues(node)

SeqRange(s) == {s[i] : i \in 1..Len(s)}

\* Every node a handle or raw pointer to n leads to.
RECURSIVE ReachFrom(_, _, _)
ReachFrom(h, frontier, seen) ==
    IF frontier = {} THEN seen
    ELSE LET nxt == UNION {SeqRange(Children(h[n])) : n \in frontier}
         IN ReachFrom(h, nxt \ (seen \cup frontier), seen \cup frontier)

Reach(h, n) == ReachFrom(h, {n}, {})

Reachable(h, rs) == ReachFrom(h, rs, {})

\* ------------------------------------------------------------------ text
\* What a visit returns, together with the visit overloads it called on the way
\* (each one the pair <<overload, node>>), in call order; open when the last
\* of these calls has not returned.
Str(s) == [text |-> s, calls |-> <<>>, open |-> FALSE]

\* a, then b: b is not reached while a has not returned.
Cat(a, b) ==
    IF a.open THEN a
    ELSE [text |-> a.text \o b.text, calls |-> a.calls \o b.calls, open |-> b.open]

\* visitor->visit(this): the overload chosen by the static type of this.
Visiting(overload, n, result) ==
    [text |-> result.text, calls |-> <<<<overload, n>>>> \o result.calls,
     open |-> result.open]

Digit(d) ==
    CASE d = 0 -> "0" [] d = 1 -> "1" [] d = 2 -> "2" [] d = 3 -> "3"
      [] d = 4 -> "4" [] d = 5 -> "5" [] d = 6 -> "6" [] d = 7 -> "7"
      [] d = 8 -> "8" [] d = 9 -> "9"

RECURSIVE Decimal(_)
Decimal(n) == IF n < 10 THEN Digit(n) ELSE Decimal(n \div 10) \o Digit(n % 10)

\* std::to_string(int)
to_string(value) == IF value < 0 THEN "-" \o Decimal(-value) ELSE Decimal(value)

\* operator<<(std::ostream &, size_t)
StreamSize(size) == Decimal(size)

\* i < size - 1 on size_t: for size = 0 the subtraction wraps to SIZE_MAX, which
\* every index is below.
ParameterSeparatorAfterLast(i, size) == i < size

ParameterSeparator(i, size) == IF size = 0 THEN TRUE ELSE i < size - 1

ArgumentSeparator(i, size) == IF size = 0 THEN TRUE ELSE i < size - 1

RECURSIVE accept(_, _)

visit_Program(h, node) ==
    LET loop[i \in 0..Len(node.nodes)] ==
            IF i < Len(node.nodes)
            THEN Cat(Cat(accept(h, node.nodes[i + 1]), Str(";")), loop[i + 1])
            ELSE Str("")
    IN loop[0]

PrimitiveTokenSlip(kind) ==
    CASE kind = "i8"  -> "char"
      [] kind = "i16" -> "short"
      [] kind = "i32" -> "int"
      [] kind = "i64" -> "long"
      [] kind = "u8"  -> "unsigned char"
      [] kind = "u16" -> "unsigned short"
      [] kind = "u32" -> "unsigned int"
      [] kind = "u64" -> "unsigned int"
      [] kind = "f32" -> "float"
      [] kind = "f64" -> "double"
      [] OTHER        -> ""

PrimitiveToken(kind) ==
    CASE kind = "i8"  -> "char"
      [] kind = "i16" -> "short"
      [] kind = "i32" -> "int"
      [] kind = "i64" -> "long"
      [] kind = "u8"  -> "unsigned char"
      [] kind = "u16" -> "unsigned short"
      [] kind = "u32" -> "unsigned int"
      [] kind = "u64" -> "unsigned long"
      [] kind = "f32" -> "float"
      [] kind = "f64" -> "double"
      [] OTHER        -> ""

visit_Primitive(h, node) == Str(PrimitiveToken(node.kind))

visit_Type(h, node) == Str("struct " \o node.name)

visit_PointerOf(h, node) == Cat(accept(h, node.node), Str("*"))

visit_ArrayOf_always_sized(h, node) ==
    Cat(Cat(accept(h, node.node), Str("[")),
        Cat(Str(StreamSize(node.size)), Str("]")))

visit_ArrayOf(h, node) ==
    Cat(Cat(accept(h, node.node), Str("[")),
        Cat(IF node.size > 0 THEN Str(StreamSize(node.size)) ELSE Str(""), Str("]")))

visit_Static(h, node) == Cat(Str("static "), accept(h, node.node))

visit_DeclLocal(h, node) == Cat(accept(h, node.type), Str(" " \o node.name))

visit_Block_separated(h, node) ==
    LET loop[i \in 0..Len(node.nodes)] ==
            IF i < Len(node.nodes)
            THEN Cat(Cat(accept(h, node.nodes[i + 1]),
                         IF i + 1 < Len(node.nodes) THEN Str(";") ELSE Str("")),
                     loop[i + 1])
            ELSE Str("")
    IN Cat(Cat(Str("{"), loop[0]), Str("}"))

visit_Block(h, node) ==
    LET loop[i \in 0..Len(node.nodes)] ==
            IF i < Len(node.nodes)
            THEN Cat(Cat(accept(h, node.nodes[i + 1]), Str(";")), loop[i + 1])
            ELSE Str("")
    IN Cat(Cat(Str("{"), loop[0]), Str("}"))

visit_Function(h, node) ==
    LET size == Len(node.parameters)
        loop[i \in 0..size] ==
            IF i < size
            THEN Cat(Cat(accept(h, node.parameters[i + 1]),
                         IF ParameterSeparator(i, size) THEN Str(", ") ELSE Str("")),
                     loop[i + 1])
            ELSE Str("")
    IN Cat(Cat(Cat(accept(h, node.return_type), Str(" " \o node.name \o "(")),
               Cat(loop[0], Str(")"))),
           accept(h, node.body))

visit_Return(h, node) == Cat(Str("return "), accept(h, node.node))

visit_Assign(h, node) ==
    Cat(Cat(accept(h, node.lhs), Str(" = ")), accept(h, node.rhs))

visit_Field(h, node) == Cat(accept(h, node.type), Str("." \o node.name))

visit_Deref(h, node) == Cat(Cat(Str("(*"), accept(h, node.node)), Str(")"))

visit_DeclType_unterminated(h, node) ==
    LET size == Len(node.fields)
        loop[i \in 0..size] ==
            IF i < size
            THEN Cat(Cat(accept(h, node.fields[i + 1]), Str(";")), loop[i + 1])
            ELSE Str("")
    IN Cat(Cat(Str("struct " \o node.name \o "{"), loop[0]), Str("}"))

visit_DeclType(h, node) ==
    LET size == Len(node.fields)
        loop[i \in 0..size] ==
            IF i < size
            THEN Cat(Cat(accept(h, node.fields[i + 1]), Str(";")), loop[i + 1])
            ELSE Str("")
    IN Cat(Cat(Str("struct " \o node.name \o "{"), loop[0]), Str("};"))

visit_Local(h, node) == Str(node.name)

visit_Call(h, node) ==
    LET size == Len(node.nodes)
        loop[i \in 0..size] ==
            IF i < size
            THEN Cat(Cat(accept(h, node.nodes[i + 1]),
                         IF ArgumentSeparator(i, size) THEN Str(",") ELSE Str("")),
                     loop[i + 1])
            ELSE Str("")
    IN Cat(Cat(accept(h, node.node), Str("(")), Cat(loop[0], Str(")")))

visit_GetRef(h, node) == Cat(Cat(Str("(&"), accept(h, node.node)), Str(")"))

\* The visit overload set of CodeGenVisitor, selected by the parameter's class.
visit(h, v, node) ==
    CASE v = "Program"   -> visit_Program(h, node)
      [] v = "Primitive" -> visit_Primitive(h, node)
      [] v = "Type"      -> visit_Type(h, node)
      [] v = "PointerOf" -> visit_PointerOf(h, node)
      [] v = "ArrayOf"   -> visit_ArrayOf(h, node)
      [] v = "Static"    -> visit_Static(h, node)
      [] v = "DeclLocal" -> visit_DeclLocal(h, node)
      [] v = "Block"     -> visit_Block(h, node)
      [] v = "Function"  -> visit_Function(h, node)
      [] v = "Return"    -> visit_Return(h, node)
      [] v = "Assign"    -> visit_Assign(h, node)
      [] v = "Field"     -> visit_Field(h, node)
      [] v = "Deref"     -> visit_Deref(h, node)
      [] v = "GetRef"    -> visit_GetRef(h, node)
      [] v = "DeclType"  -> visit_DeclType(h, node)
      [] v = "Local"     -> visit_Local(h, node)
      [] v = "Call"      -> visit_Call(h, node)

\* Literal<T>::accept, Literal<std::string>::accept, Literal<char>::accept:
\* the text is made in the node and the visitor is not called.
Literal_accept(node) ==
    CASE node.variant = "Literal<int>"         -> Str(to_string(node.value))
      [] node.variant = "Literal<std::string>" -> Str("\"" \o node.value \o "\"")
      [] node.variant = "Literal<char>"        -> Str("'" \o node.value \o "'")

\* Node::accept calls visitor->visit(this) with this a Node *, and
\* CodeGenVisitor::visit(Node *) calls node->accept(this), which for an object
\* of class Node itself is Node::accept again: the call is open at the point
\* it is about to enter Node::accept the second time.
Node_accept(n) == [text |-> "", calls |-> <<<<"Node", n>>>>, open |-> TRUE]

\* The virtual call n->accept(visitor), resolved by the class of the object.
accept(h, n) ==
    IF h[n].variant \in LiteralVariants
    THEN Literal_accept(h[n])
    ELSE IF h[n].variant = "Node"
    THEN Node_accept(n)
    ELSE Visiting(h[n].variant, n, visit(h, h[n].variant, h[n]))

\* CodeGenVisitor::visit(Node *): node->accept(this), a virtual call.
visit_Node(h, n) == Visiting("Node", n, accept(h, n))

\* ------------------------------------------------------------------ state
\* The value the last operation handed back to the caller, with the arguments
\* it was called with.
Ret(op, node, args, ptr, status, result) ==
    [op |-> op, node |-> node, args |-> args, ptr |-> ptr,
     status |-> status, text |-> result.text, calls |-> result.calls]

NoRet == Ret("none", Null, <<>>, Null, "", Str(""))

Live(n) == deletes[n] = 0

\* The program is single-threaded: while a render has not returned the caller
\* does nothing else.
Idle == ret.status # "running"

\* The nodes the caller can name: through a handle, or through the public
\* members of a node it can name.
Known == Reachable(heap, roots)

\* What a program holds part way through one of the tests: the function foo
\* of test_function; a function with one parameter pushed; the call of
\* test_call with its first argument; the two fields of test_struct, built
\* and not yet handed to decl_type; a named type on its own.
TestHeaps ==
    { << [variant |-> "Function", name |-> "foo", parameters |-> <<>>,
          return_type |-> 2, body |-> 3],
         PrimitiveNode("i32"),
         DefaultNode("Block") >>,
      << [variant |-> "Function", name |-> "main", parameters |-> <<5>>,
          return_type |-> 2, body |-> 3],
         PrimitiveNode("i32"),
         DefaultNode("Block"),
         PrimitiveNode("i32"),
         [variant |-> "DeclLocal", name |-> "a0", type |-> 4] >>,
      << [variant |-> "Local", name |-> "foo"],
         [variant |-> "Call", node |-> 1, nodes |-> <<3>>],
         LiteralNode("Literal<int>", 1) >>,
      << PrimitiveNode("i32"),
         [variant |-> "DeclLocal", name |-> "p0", type |-> 1],
         PrimitiveNode("i8"),
         [variant |-> "DeclLocal", name |-> "p1", type |-> 3] >>,
      << [variant |-> "Type", name |-> "Point"] >> }

\* The nodes of a heap no other node owns: the caller's handles.
Unowned(h) ==
    {n \in 1..Len(h) : \A m \in 1..Len(h) : n \notin SeqRange(Children(h[m]))}

Holding(h) ==
    /\ heap = h
    /\ roots = Unowned(h)
    /\ ret = NoRet
    /\ deletes = [i \in 1..Len(h) |-> 0]
    /\ last = <<>>
    /\ base = Len(h)

\* A program that has built nothing yet.
Init == Holding(<<>>)

\* A program at the start, or part way through one of the tests.
InitTests == \E h \in {<<>>} \cup TestHeaps : Holding(h)

\* ------------------------------------------------------------------ building
\* new X / std::make_unique<X>(): one more object, owned by the handle the
\* builder returns; the handles moved into the builder are left empty.
Construct(op, args, node, moved) ==
    /\ Idle
    /\ Len(heap) < base + MaxNew
    /\ heap' = Append(heap, node)
    /\ roots' = (roots \ moved) \cup {Len(heap) + 1}
    /\ ret' = Ret(op, Len(heap) + 1, args, Len(heap) + 1, "", Str(""))
    /\ deletes' = Append(deletes, 0)
    /\ last' = <<>>
    /\ UNCHANGED base

\* __CGEN_PRIMITIVE(name): i8() ... f64()
primitive ==
    \E kind \in PrimitiveKinds :
        Construct("primitive", <<kind>>, PrimitiveNode(kind), {})

\* std::make_unique<X>() by the caller
make_unique ==
    \E v \in DefaultConstructible \cup {"Node"} :
        Construct("make_unique", <<v>>, DefaultNode(v), {})

pointer_of ==
    \E node \in roots :
        Construct("pointer_of", <<node>>,
                  [DefaultNode("PointerOf") EXCEPT !.node = node], {node})

\* array_of(node) and array_of(node, size): the size is a default argument
array_of ==
    \E node \in roots, given \in {<<>>} \cup {<<n>> : n \in Sizes} :
        LET size == IF given = <<>> THEN 0 ELSE given[1] IN
        Construct("array_of", <<node>> \o given,
                  [DefaultNode("ArrayOf") EXCEPT !.node = node, !.size = size],
                  {node})

decl_local ==
    \E name \in Names, type \in roots :
        Construct("decl_local", <<type>>,
                  [DefaultNode("DeclLocal") EXCEPT !.name = name, !.type = type],
                  {type})

literal ==
    \/ \E value \in IntValues :
           Construct("literal", <<>>, LiteralNode("Literal<int>", value), {})
    \/ \E value \in StringValues :
           Construct("literal", <<>>, LiteralNode("Literal<std::string>", value), {})
    \/ \E value \in CharValues :
           Construct("literal", <<>>, LiteralNode("Literal<char>", value), {})

local ==
    \E name \in Names :
        Construct("local", <<>>, [DefaultNode("Local") EXCEPT !.name = name], {})

field ==
    \E type \in roots, name \in Names :
        Construct("field", <<type>>,
                  [DefaultNode("Field") EXCEPT !.type = type, !.name = name],
                  {type})

\* The argument packs of the variadic builders: handles, each moved once.
Packs ==
    {p \in UNION {[1..k -> roots] : k \in 0..MaxPack} :
        \A i, j \in DOMAIN p : i # j => p[i] # p[j]}

decl_type ==
    \E name \in Names, fields_ \in Packs :
        Construct("decl_type", fields_,
                  [DefaultNode("DeclType") EXCEPT !.name = name, !.fields = fields_],
                  SeqRange(fields_))

call ==
    \E node \in roots, nodes_ \in Packs :
        /\ node \notin SeqRange(nodes_)
        /\ Construct("call", <<node>> \o nodes_,
                     [DefaultNode("Call") EXCEPT !.node = node, !.nodes = nodes_],
                     {node} \cup SeqRange(nodes_))

get_ref ==
    \E node \in roots :
        Construct("get_ref", <<node>>,
                  [DefaultNode("GetRef") EXCEPT !.node = node], {node})

\* Type::pointer_of(): the new PointerOf takes `this` into a unique_ptr, whoever
\* owns the Type already.
Type_pointer_of ==
    \E this \in Known :
        /\ heap[this].variant = "Type"
        /\ Construct("Type::pointer_of", <<this>>,
                     [DefaultNode("PointerOf") EXCEPT !.node = this], {})

Type_array_of ==
    \E this \in Known, given \in {<<>>} \cup {<<n>> : n \in Sizes} :
        LET size == IF given = <<>> THEN 0 ELSE given[1] IN
        /\ heap[this].variant = "Type"
        /\ Construct("Type::array_of", <<this>> \o given,
                     [DefaultNode("ArrayOf") EXCEPT !.node = this, !.size = size],
                     {})

\* ------------------------------------------------------------------ composing
\* A handle is moved into a node outside the handle's own tree.
Outside(p, node) == p \notin Reach(heap, node)

Mutate(h) ==
    /\ Idle
    /\ heap' = h
    /\ last' = <<>>
    /\ UNCHANGED <<deletes, base>>

\* Program::push, Block::push
push ==
    \E this \in Known, node \in roots :
        /\ heap[this].variant \in {"Program", "Block"}
        /\ Outside(this, node)
        /\ Mutate([heap EXCEPT ![this].nodes = Append(@, node)])
        /\ roots' = roots \ {node}
        /\ ret' = NoRet

\* fn->parameters.push_back(...), program.nodes.push_back(...): the vectors
\* are public members.
push_back ==
    \E this \in Known, node \in roots :
        /\ VectorsOf(heap[this].variant) # <<>>
        /\ Outside(this, node)
        /\ LET member == VectorsOf(heap[this].variant)[1]
           IN Mutate([heap EXCEPT ![this][member] = Append(@, node)])
        /\ roots' = roots \ {node}
        /\ ret' = NoRet

\* fn->return_type = cgen::i32(); fn->body = std::move(body): move assignment
\* into an empty slot.
assign_slot ==
    \E this \in Known, node \in roots :
        \E k \in 1..Len(SlotsOf(heap[this].variant)) :
            LET member == SlotsOf(heap[this].variant)[k] IN
            /\ heap[this][member] = Null
            /\ Outside(this, node)
            /\ Mutate([heap EXCEPT ![this][member] = node])
            /\ roots' = roots \ {node}
            /\ ret' = NoRet

\* ------------------------------------------------------------------ views
\* The classes a node of variant v is an instance of.
ClassesOf(v) == {v, "Node"}

dynamic_cast_unchecked(h, n, T) == n

dynamic_cast(h, n, T) == IF T \in ClassesOf(h[n].variant) THEN n ELSE Null

\* Node::as<T>()
as ==
    \E this \in Known, T \in Variants \cup {"Node"} :
        /\ Idle
        /\ Live(this)
        /\ ret' = Ret("as", this, <<T>>, dynamic_cast(heap, this, T), "", Str(""))
        /\ UNCHANGED <<heap, roots, deletes, last, base>>

\* local->name = "x" through the pointer as<T>() returned
set_name ==
    \E name \in Names :
        /\ ret.op = "as" /\ ret.ptr # Null
        /\ HasName(ret.args[1])
        /\ Mutate([heap EXCEPT ![ret.ptr].name = name])
        /\ UNCHANGED <<roots, ret>>

\* arr->size = n through the pointer as<T>() returned
set_size ==
    \E size \in Sizes :
        /\ ret.op = "as" /\ ret.ptr # Null
        /\ ret.args[1] = "ArrayOf"
        /\ Mutate([heap EXCEPT ![ret.ptr].size = size])
        /\ UNCHANGED <<roots, ret>>

\* ------------------------------------------------------------------ rendering
\* Every unique_ptr the visitor dereferences under n holds a node.
Complete(h, n) ==
    \A m \in Reach(h, n) : \A k \in 1..Len(SlotsOf(h[m].variant)) :
        h[m][SlotsOf(h[m].variant)[k]] # Null

\* No object under n has been deleted.
Intact(n) == \A m \in Reach(heap, n) : Live(m)

\* Calling through an empty unique_ptr or into a deleted object is undefined:
\* the call dies, or hands back whatever text it makes of the memory.
Undefined == {"crash", "garbage"}

\* How a call that was let run stands: returned, or still running.
Status(result) == IF result.open THEN "running" ELSE "returned"

\* The visitor as it would be with its stream a member, never cleared.
AcceptSharedStream ==
    \E n \in roots :
        /\ Idle
        /\ IF Complete(heap, n) /\ Intact(n)
           THEN LET result == accept(heap, n) IN
                /\ ret' = Ret("accept", n, <<>>, Null, Status(result),
                              [result EXCEPT !.text = ret.text \o @])
                /\ last' = IF result.open THEN last
                           ELSE IF last = <<>>
                           THEN <<n, ret.text \o result.text, FALSE>>
                           ELSE <<last[1], last[2], last[3] \/ last[1] = n>>
           ELSE /\ \E outcome \in Undefined :
                    ret' = Ret("accept", n, <<>>, Null, outcome, Str(""))
                /\ UNCHANGED last
        /\ UNCHANGED <<heap, roots, deletes, base>>

\* root->accept(&visitor) with a CodeGenVisitor; last remembers the first
\* render since the trees were last touched: the node, the text, and whether
\* the node has been rendered again since.
Accept ==
    \E n \in roots :
        /\ Idle
        /\ IF Complete(heap, n) /\ Intact(n)
           THEN LET result == accept(heap, n) IN
                /\ ret' = Ret("accept", n, <<>>, Null, Status(result), result)
                /\ last' = IF result.open THEN last
                           ELSE IF last = <<>>
                           THEN <<n, result.text, FALSE>>
                           ELSE <<last[1], last[2], last[3] \/ last[1] = n>>
           ELSE /\ \E outcome \in Undefined :
                    ret' = Ret("accept", n, <<>>, Null, outcome, Str(""))
                /\ UNCHANGED last
        /\ UNCHANGED <<heap, roots, deletes, base>>

\* visitor.visit(root.get()): the render entered through
\* CodeGenVisitor::visit(Node *). It keeps no record for last.
Visit ==
    \E n \in roots :
        /\ Idle
        /\ IF Complete(heap, n) /\ Intact(n)
           THEN LET result == visit_Node(heap, n) IN
                ret' = Ret("visit", n, <<>>, Null, Status(result), result)
           ELSE \E outcome \in Undefined :
                    ret' = Ret("visit", n, <<>>, Null, outcome, Str(""))
        /\ UNCHANGED <<heap, roots, deletes, last, base>>

\* The open call goes on: Node::accept calls visitor->visit(this), which calls
\* node->accept(this), one frame deeper each time, until the stack has no
\* room left and the process dies. (A build that turns the two tail calls
\* into jumps stays where it is for ever.)
Reenter ==
    /\ ret.status = "running"
    /\ ret' = IF Len(ret.calls) < MaxStack
              THEN [ret EXCEPT !.calls = Append(@, ret.calls[Len(ret.calls)])]
              ELSE [ret EXCEPT !.status = "crash"]
    /\ UNCHANGED <<heap, roots, deletes, last, base>>

\* ------------------------------------------------------------------ destroying
\* delete through a Node *: Node has no virtual destructor, so the delete of a
\* derived object is undefined; either the members are destroyed with it (and
\* so the subtree), or only the Node part is and the children are never deleted.
Deleted(n, deep) == IF deep THEN Reach(heap, n) ELSE {n}

\* A handle goes out of scope or is reset.
reset ==
    \E n \in roots, deep \in BOOLEAN :
        /\ Idle
        /\ deletes' = [m \in 1..Len(heap) |->
                          IF m \in Deleted(n, deep) THEN deletes[m] + 1 ELSE deletes[m]]
        /\ roots' = roots \ {n}
        /\ last' = <<>>
        /\ ret' = NoRet
        /\ UNCHANGED <<heap, base>>

\* ------------------------------------------------------------------ programs
Build ==
    \/ primitive
    \/ make_unique
    \/ pointer_of
    \/ array_of
    \/ decl_local
    \/ literal
    \/ local
    \/ field
    \/ decl_type
    \/ call
    \/ get_ref
    \/ Type_pointer_of
    \/ Type_array_of

Compose ==
    \/ push
    \/ push_back
    \/ assign_slot

View ==
    \/ as
    \/ set_name
    \/ set_size

Render ==
    \/ Accept
    \/ Visit
    \/ Reenter

Next ==
    \/ Build
    \/ Compose
    \/ View
    \/ Render
    \/ reset

\* Every operation, from the empty program on.
Spec == Init /\ [][Next]_vars

\* Programs that build trees and render them.
NextRender ==
    \/ Build
    \/ Compose
    \/ Accept
    \/ Reenter

SpecRender == InitTests /\ [][NextRender]_vars

\* Programs that build trees and render them through either way in.
NextEnter ==
    \/ Build
    \/ Compose
    \/ Render

SpecEnter == InitTests /\ [][NextEnter]_vars

\* Programs that make nodes, look at them through as<T>(), set attributes
\* through the pointer they get, and render.
NextView ==
    \/ primitive
    \/ make_unique
    \/ literal
    \/ local
    \/ View
    \/ Accept
    \/ Reenter

SpecView == Init /\ [][NextView]_vars

\* Programs that build trees and let their handles go.
NextOwn ==
    \/ Build
    \/ Compose
    \/ reset

SpecOwn == InitTests /\ [][NextOwn]_vars

\* ------------------------------------------------------------------ claims
\* The text of node n.
Text(n) == accept(heap, n).text

\* A node whose rendering is defined.
Renderable(n) == Complete(heap, n) /\ Intact(n) /\ ~accept(heap, n).open

Returned == ret.op = "accept" /\ ret.status = "returned"

RECURSIVE Joined(_, _)
Joined(ns, sep) ==
    IF ns = <<>> THEN ""
    ELSE IF Len(ns) = 1 THEN Text(ns[1])
    ELSE Text(ns[1]) \o sep \o Joined(Tail(ns), sep)

RECURSIVE Terminated(_, _)
Terminated(ns, end) ==
    IF ns = <<>> THEN "" ELSE Text(ns[1]) \o end \o Terminated(Tail(ns), end)

FunctionText(n) ==
    Text(heap[n].return_type) \o " " \o heap[n].name \o "("
        \o Joined(heap[n].parameters, ", ") \o ")" \o Text(heap[n].body)

CallText(n) == Text(heap[n].node) \o "(" \o Joined(heap[n].nodes, ",") \o ")"

BlockText(n) == "{" \o Terminated(heap[n].nodes, ";") \o "}"

ProgramText(n) == Terminated(heap[n].nodes, ";")

DeclTypeText(n) ==
    "struct " \o heap[n].name \o "{" \o Terminated(heap[n].fields, ";") \o "};"

\* The text the claims give a node of variant v; none for the other variants.
Claimed(v, n) ==
    CASE v = "Function" -> FunctionText(n)
      [] v = "Call"     -> CallText(n)
      [] v = "Block"    -> BlockText(n)
      [] v = "Program"  -> ProgramText(n)
      [] v = "DeclType" -> DeclTypeText(n)

\* Every renderable node of one of the variants vs has the claimed text, and
\* so has the text the last accept returned for such a node.
RendersAsClaimed(vs) ==
    /\ \A n \in 1..Len(heap) :
           heap[n].variant \in vs /\ Renderable(n)
               => Text(n) = Claimed(heap[n].variant, n)
    /\ Returned /\ heap[ret.node].variant \in vs
           => ret.text = Claimed(heap[ret.node].variant, ret.node)

\* C1: a Function renders as its return type, a space, its name, "(", its
\* parameters in insertion order joined by ", " with no separator before the
\* first or after the last, ")" and its body, so "()" with no parameters; a
\* Call renders as its callee, "(", its arguments in insertion order joined by
\* "," and ")".
SeparatorCorrectness == RendersAsClaimed({"Function", "Call"})

\* A function with two parameters has been rendered.
SeparatorWitness ==
    /\ Returned
    /\ heap[ret.node].variant = "Function"
    /\ Len(heap[ret.node].parameters) = 2

\* C2: a Block renders as "{", each child in push order followed by ";", and
\* "}", so "{}" when empty; a Program renders as each child in push order
\* followed by ";", so the empty string when empty; every child gets its ";"
\* whatever its variant.
StatementListRule == RendersAsClaimed({"Block", "Program"})

\* A program holding a function has been rendered: its text ends in "};".
StatementListWitness ==
    /\ Returned
    /\ heap[ret.node].variant = "Program"
    /\ Len(heap[ret.node].nodes) = 1
    /\ heap[heap[ret.node].nodes[1]].variant = "Function"
    /\ ret.text = "int foo(){};"

\* The table of section 4.3.
ScalarToken ==
    [k \in PrimitiveKinds |->
        CASE k = "i8" -> "char" [] k = "i16" -> "short" [] k = "i32" -> "int"
          [] k = "i64" -> "long" [] k = "u8" -> "unsigned char"
          [] k = "u16" -> "unsigned short" [] k = "u32" -> "unsigned int"
          [] k = "u64" -> "unsigned long" [] k = "f32" -> "float"
          [] k = "f64" -> "double"]

\* C3: the node each of the ten primitive builders returns is a Primitive of
\* that kind, a Primitive renders to the token of its kind and to nothing
\* else, rendering it never fails, no token is empty and no two kinds share one.
PrimitiveMappingTotality ==
    /\ ret.op = "primitive" => heap[ret.node] = PrimitiveNode(ret.args[1])
    /\ \A n \in 1..Len(heap) :
           heap[n].variant = "Primitive"
               => /\ heap[n].kind \in PrimitiveKinds
                  /\ Text(n) = ScalarToken[heap[n].kind]
                  /\ Text(n) # ""
                  /\ \A k \in PrimitiveKinds :
                         Text(n) = PrimitiveToken(k) => k = heap[n].kind
    /\ ret.op = "accept" /\ heap[ret.node].variant = "Primitive"
           => ret.status = "returned" /\ ret.text = ScalarToken[heap[ret.node].kind]

\* The node u64() returned has been rendered.
PrimitiveWitness ==
    /\ Returned
    /\ heap[ret.node] = PrimitiveNode("u64")
    /\ ret.text = "unsigned long"

\* C4: decl_type(name, f0, ..., fn-1) returns a DeclType holding the fields in
\* argument order, and a DeclType renders as "struct ", its name, "{", each
\* field followed by ";", and "};".
DeclTypeRule ==
    /\ ret.op = "decl_type"
           => /\ heap[ret.node].variant = "DeclType"
              /\ heap[ret.node].fields = ret.args
    /\ RendersAsClaimed({"DeclType"})

\* The struct of test_struct, under the name x, has been rendered.
DeclTypeWitness ==
    /\ Returned
    /\ heap[ret.node].variant = "DeclType"
    /\ ret.text = "struct x{int p0;char p1;};"

\* The decimal text of the array sizes of the model.
SizeText == [n \in Sizes |-> CASE n = 0 -> "0" [] n = 10 -> "10"]

ArrayOfText(n) ==
    Text(heap[n].node) \o "["
        \o (IF heap[n].size > 0 THEN SizeText[heap[n].size] ELSE "") \o "]"

\* C5: an ArrayOf renders as its inner node, "[", the decimal size when it is
\* above 0 and nothing when it is 0, and "]"; rendering with size 0 returns
\* (it is no error); array_of without a size argument gives size 0.
ArrayOfRule ==
    /\ ret.op \in {"array_of", "Type::array_of"} /\ Len(ret.args) = 1
           => heap[ret.node].variant = "ArrayOf" /\ heap[ret.node].size = 0
    /\ \A n \in 1..Len(heap) :
           heap[n].variant = "ArrayOf" /\ Renderable(n) => Text(n) = ArrayOfText(n)
    /\ ret.op = "accept" /\ heap[ret.node].variant = "ArrayOf"
            /\ Renderable(ret.node)
           => ret.status = "returned" /\ ret.text = ArrayOfText(ret.node)

\* array_of(decl_local("p0", i32())) has been rendered.
ArrayOfWitness ==
    /\ Returned
    /\ heap[ret.node].variant = "ArrayOf"
    /\ heap[ret.node].size = 0
    /\ ret.text = "int p0[]"

\* C6: a render changes no node, handle or object, and a tree rendered again
\* with nothing touched in between, whatever else was rendered meanwhile,
\* gives the text it gave the first time.
RenderingIsPure ==
    [][ret'.op = "accept"
          => /\ heap' = heap
             /\ roots' = roots
             /\ deletes' = deletes
             /\ (ret'.status = "returned" /\ last # <<>> /\ last[1] = ret'.node
                    => ret'.text = last[2])]_vars

\* A tree has been rendered, then another one, then the first again.
RenderedAgainWitness ==
    /\ Returned
    /\ last # <<>>
    /\ last[3]
    /\ last[1] # ret.node
    /\ last[2] # ""

\* C7: rendering a node with an absent required child ends in an error
\* labelled "incomplete node".
IncompleteNodeReported ==
    ret.op = "accept" /\ ~Complete(heap, ret.node) => ret.status = "incomplete node"

\* C8: as<X>() for a variant X returns the node itself when the node is an X
\* and null when it is not, it changes no node, and what is set through the
\* pointer it returned is set in that node and in no other.
SafeDowncast ==
    [][ret'.op = "as"
          => /\ ret'.args[1] \in Variants
                    => ret'.ptr = IF heap'[ret'.node].variant = ret'.args[1]
                                  THEN ret'.node ELSE Null
             /\ ret' # ret => heap' = heap
             /\ ret' = ret
                    => \A m \in 1..Len(heap) : m # ret.ptr => heap'[m] = heap[m]]_vars

\* A cast to a variant the node is not has returned null.
SafeDowncastWitness ==
    /\ ret.op = "as"
    /\ ret.args[1] \in Variants
    /\ ret.args[1] # heap[ret.node].variant
    /\ ret.ptr = Null

\* The handles and the slots of live nodes that hold n.
Owners(n) ==
    (IF n \in roots THEN 1 ELSE 0)
        + Cardinality({<<m, i>> \in (1..Len(heap)) \X (1..Len(heap)) :
                          /\ Live(m)
                          /\ i \in 1..Len(Children(heap[m]))
                          /\ Children(heap[m])[i] = n})

\* C9: every node has exactly one owner, a handle or one slot of one parent;
\* no node is deleted twice; when every handle is gone every node has been
\* deleted exactly once.
ExclusiveOwnership ==
    /\ \A n \in 1..Len(heap) : Live(n) => Owners(n) = 1
    /\ \A n \in 1..Len(heap) : deletes[n] <= 1
    /\ roots = {} => \A n \in 1..Len(heap) : deletes[n] = 1

\* C10: accept on a node of any variant, the Literal ones included, calls the
\* visitor's visit for that variant exactly once for the node.
DoubleDispatch ==
    Returned
        => LET mine == {i \in 1..Len(ret.calls) : ret.calls[i][2] = ret.node} IN
           /\ Cardinality(mine) = 1
           /\ \A i \in mine : ret.calls[i][1] = heap[ret.node].variant

\* C11: the render of a tree with every required slot filled returns, entered
\* through accept on the root or through CodeGenVisitor::visit(Node *),
\* whatever the class of each node, a plain Node included: it does not end
\* with the stack exhausted, and its call chain never comes to the same node
\* through the same visit twice.
RenderTerminates ==
    ret.op \in {"accept", "visit"} /\ Complete(heap, ret.node) /\ Intact(ret.node)
        => /\ ret.status \in {"running", "returned"}
           /\ \A i, j \in 1..Len(ret.calls) : ret.calls[i] = ret.calls[j] => i = j

====
